---- MODULE Spec2Model ----
(***************************************************************************)
(* Model of analysis/engagement_analysis.py: the pipeline                  *)
(*   load_video_data -> classify_content_type -> analyze_engagement        *)
(*   -> suggest_content_topics -> report                                   *)
(* run by main().                                                          *)
(*                                                                         *)
(* A DataFrame is a sequence of rows; a row is a record whose field        *)
(* "index" is the pandas row label (RangeIndex given by read_csv, carried  *)
(* along by copy / sort_values / nlargest).                                *)
(*                                                                         *)
(* Floating-point values are modelled as exact rationals [num, den]        *)
(* (den > 0, lowest terms); den = 0 stands for a failed division.          *)
(* Rounding of IEEE doubles is not modelled.                               *)
(*                                                                         *)
(* A string that the code strips is a sequence of chunks, each chunk       *)
(* either the whitespace chunk " " or a run of non-blank characters.       *)
(***************************************************************************)
EXTENDS Integers, Sequences, FiniteSets

VARIABLES
    pc,          \* position in main(): load, classify, analyze, suggest, report, done, error
    csv,         \* the data rows of the input table (header excluded)
    top_n,       \* the top_n handed to suggest_content_topics
    df,          \* the frame main() loads, and passes to analyze_engagement
    ranked,      \* the frame analyze_engagement returns
    top_videos,  \* local of suggest_content_topics: the rows it scans
    tag_counts,  \* local of suggest_content_topics: the dict, in insertion order
    suggestions  \* the list suggest_content_topics returns

vars == <<pc, csv, top_n, df, ranked, top_videos, tag_counts, suggestions>>

\* ------------------------------------------------------------------ bounds

\* Most data rows in an input table.
MaxRows == 3

\* Largest top_n tried besides the one main() passes.
MaxTopN == 3

\* ------------------------------------------------------- program constants

\* Weights of compute_engagement_score, in tenths (0.4, 0.3, 0.2, 0.1).
LikeWeightTenths == 4
CommentWeightTenths == 3
ShareWeightTenths == 2
WatchTimeWeightTenths == 1
WeightScale == 10
SecondsPerHour == 3600
ViewsFloor == 1
DurationFloor == 1
ShortThreshold == 60
MainTopN == 10

\* ------------------------------------------------------------- arithmetic

Max(a, b) == IF a >= b THEN a ELSE b

Min(a, b) == IF a <= b THEN a ELSE b

RECURSIVE GCD(_, _)
GCD(a, b) == IF b = 0 THEN a ELSE GCD(b, a % b)

\* A float: num/den in lowest terms.
Float(n, d) ==
    IF d = 0 THEN [num |-> 0, den |-> 0]
    ELSE LET g == GCD(n, d) IN
         IF g = 0 THEN [num |-> 0, den |-> 1]
         ELSE [num |-> n \div g, den |-> d \div g]

FromInt(n) == Float(n, 1)

\* x / y; a zero divisor is the failed division.
FDiv(x, y) ==
    IF x.den = 0 \/ y.den = 0 \/ y.num = 0 THEN [num |-> 0, den |-> 0]
    ELSE Float(x.num * y.den, x.den * y.num)

FMul(x, y) ==
    IF x.den = 0 \/ y.den = 0 THEN [num |-> 0, den |-> 0]
    ELSE Float(x.num * y.num, x.den * y.den)

FAdd(x, y) ==
    IF x.den = 0 \/ y.den = 0 THEN [num |-> 0, den |-> 0]
    ELSE Float(x.num * y.den + y.num * x.den, x.den * y.den)

\* x >= y on floats that are numbers.
FGeq(x, y) == x.num * y.den >= y.num * x.den

\* -------------------------------------------------------------- sequences

RECURSIVE Flatten(_)
Flatten(ss) == IF ss = <<>> THEN <<>> ELSE Head(ss) \o Flatten(Tail(ss))

Permutations(n) ==
    {p \in [1..n -> 1..n] : \A i, j \in 1..n : p[i] = p[j] => i = j}

\* ------------------------------------------------------------ input table

Blank == " "

Sep == "|"

\* A tags cell: missing (NaN after read_csv) or a string of chunks.
Cell(chunks) == [isna |-> FALSE, text |-> chunks]

MissingCell == [isna |-> TRUE, text |-> <<>>]

Row(id, dur, v, l, c, s, wnum, wden, cell) ==
    [video_id |-> id, title |-> id, publish_date |-> "2024-01-01",
     duration_seconds |-> dur, views |-> v, likes |-> l, comments |-> c,
     shares |-> s, watch_time_hours |-> Float(wnum, wden), tags |-> cell]

\* Record A of the end-to-end scenario: tags "tech|review".
RecordA == Row("A", 120, 100, 20, 5, 1, 1, 2, Cell(<<"tech", Sep, "review">>))

\* Record B of the end-to-end scenario: tags "vlog".
RecordB == Row("B", 30, 50, 2, 0, 0, 1, 20, Cell(<<"vlog">>))

\* No views; tags " tech |tech||vlog " (padding, a repeat, an empty entry).
RecordZeroViews ==
    Row("Z", 59, 0, 3, 0, 0, 0, 1,
        Cell(<<Blank, "tech", Blank, Sep, "tech", Sep, Sep, "vlog", Blank>>))

\* No duration; the tags cell is missing.
RecordZeroDuration == Row("D", 0, 10, 0, 0, 0, 1, 100, MissingCell)

\* Same score as record B (0.616), duration on the short/video boundary.
RecordTie == Row("E", 60, 100, 4, 0, 0, 1, 10, Cell(<<"review", Sep, "vlog">>))

Catalogue == {RecordA, RecordB, RecordZeroViews, RecordZeroDuration, RecordTie}

Tables == UNION {[1..n -> Catalogue] : n \in 0..MaxRows}

TopNs == (0..MaxTopN) \cup {MainTopN}

\* ----------------------------------------------------------------- loader

\* str.split("|"): cur is the piece being read, out the pieces closed so far.
RECURSIVE SplitFrom(_, _, _)
SplitFrom(s, cur, out) ==
    IF s = <<>> THEN Append(out, cur)
    ELSE IF Head(s) = Sep THEN SplitFrom(Tail(s), <<>>, Append(out, cur))
    ELSE SplitFrom(Tail(s), Append(cur, Head(s)), out)

Split(s) == SplitFrom(s, <<>>, <<>>)

RECURSIVE LStrip(_)
LStrip(s) ==
    IF s # <<>> /\ Head(s) = Blank THEN LStrip(Tail(s)) ELSE s

RECURSIVE RStrip(_)
RStrip(s) ==
    IF s # <<>> /\ s[Len(s)] = Blank THEN RStrip(SubSeq(s, 1, Len(s) - 1)) ELSE s

\* str.strip()
Strip(s) == RStrip(LStrip(s))

\* [tag.strip() for tag in pieces if tag.strip()]
RECURSIVE StripNonEmpty(_)
StripNonEmpty(pieces) ==
    IF pieces = <<>> THEN <<>>
    ELSE IF Strip(Head(pieces)) # <<>>
         THEN <<Strip(Head(pieces))>> \o StripNonEmpty(Tail(pieces))
         ELSE StripNonEmpty(Tail(pieces))

\* fillna("")
FillNa(cell) == IF cell.isna THEN <<>> ELSE cell.text

ParseTags(cell) == StripNonEmpty(Split(FillNa(cell)))

\* read_csv gives the frame a RangeIndex; the tags column becomes lists.
load_video_data(table) ==
    [i \in 1..Len(table) |->
        [index |-> i - 1,
         video_id |-> table[i].video_id,
         title |-> table[i].title,
         publish_date |-> table[i].publish_date,
         duration_seconds |-> table[i].duration_seconds,
         views |-> table[i].views,
         likes |-> table[i].likes,
         comments |-> table[i].comments,
         shares |-> table[i].shares,
         watch_time_hours |-> table[i].watch_time_hours,
         tags |-> ParseTags(table[i].tags)]]

\* ------------------------------------------------------------- classifier

\* A classifier with the comparison turned round.
ClassifyAbove(duration_seconds) ==
    IF duration_seconds > ShortThreshold THEN "short" ELSE "video"

classify_content_type(duration_seconds) ==
    IF duration_seconds < ShortThreshold THEN "short" ELSE "video"

\* A row with one more column.
WithColumn(row, name, value) ==
    [f \in DOMAIN row \cup {name} |-> IF f = name THEN value ELSE row[f]]

\* df["content_type"] = df["duration_seconds"].apply(classify_content_type)
SetContentType(d) ==
    [i \in 1..Len(d) |->
        WithColumn(d[i], "content_type",
                   classify_content_type(d[i].duration_seconds))]

\* ----------------------------------------------------------------- scorer

\* A scorer that forgets the floor of line 64.
ViewsUnfloored(row) == row.views

\* views = max(row["views"], 1)
ViewsDenominator(row) == Max(row.views, ViewsFloor)

\* max(row["duration_seconds"], 1)
DurationDenominator(row) == Max(row.duration_seconds, DurationFloor)

like_ratio(row) == FDiv(FromInt(row.likes), FromInt(ViewsDenominator(row)))

comment_ratio(row) == FDiv(FromInt(row.comments), FromInt(ViewsDenominator(row)))

share_ratio(row) == FDiv(FromInt(row.shares), FromInt(ViewsDenominator(row)))

watch_time_ratio(row) ==
    FDiv(FMul(row.watch_time_hours, FromInt(SecondsPerHour)),
         FromInt(DurationDenominator(row)))

compute_engagement_score(row) ==
    FAdd(FAdd(FAdd(FMul(Float(LikeWeightTenths, WeightScale), like_ratio(row)),
                   FMul(Float(CommentWeightTenths, WeightScale), comment_ratio(row))),
              FMul(Float(ShareWeightTenths, WeightScale), share_ratio(row))),
         FMul(Float(WatchTimeWeightTenths, WeightScale), watch_time_ratio(row)))

\* ----------------------------------------------------------------- ranker

\* A copy that is no copy: the caller's frame itself.
DfAlias(d) == [rows |-> d, shares_data |-> TRUE]

\* df.copy(): a new frame with the same rows, sharing nothing with d.
DfCopy(d) == [rows |-> d, shares_data |-> FALSE]

\* An apply that hands back a copy of the empty frame, not a Series.
ApplyEmptyFrame(d) == [kind |-> "DataFrame", values |-> <<>>]

\* DataFrame.apply on a frame without rows (pandas apply_empty_result): the
\* function is probed on one all-NaN row; compute_engagement_score returns a
\* float for it, not a Series, so the result is reduced to an empty Series.
ApplyEmptyResult(d) == [kind |-> "Series", values |-> <<>>]

\* df.apply(compute_engagement_score, axis=1): one score per row, in row
\* order; an exception of the function propagates.
Apply(d) ==
    IF Len(d) = 0 THEN ApplyEmptyResult(d)
    ELSE LET scores == [i \in 1..Len(d) |-> compute_engagement_score(d[i])]
         IN  IF \E i \in 1..Len(d) : scores[i].den = 0
             THEN [kind |-> "ZeroDivisionError", values |-> <<>>]
             ELSE [kind |-> "Series", values |-> scores]

\* Scores attached to the rows one position off.
SetScoreShifted(d, values) ==
    [i \in 1..Len(d) |->
        WithColumn(d[i], "engagement_score", values[(i % Len(d)) + 1])]

\* df["engagement_score"] = <Series>: aligned on the row label.
SetEngagementScore(d, values) ==
    [i \in 1..Len(d) |-> WithColumn(d[i], "engagement_score", values[i])]

\* The order ascending=True would ask for.
InAscendingOrder(a, b) == FGeq(b.engagement_score, a.engagement_score)

\* The order sort_values("engagement_score", ascending=False) asks of two
\* adjacent rows.
InSortedOrder(a, b) == FGeq(a.engagement_score, b.engagement_score)

Reorder(d, p) == [i \in 1..Len(d) |-> d[p[i]]]

\* A sort that returns the frame as it is.
SortValuesNone(d) == {d}

\* df.sort_values("engagement_score", ascending=False), kind = "quicksort"
\* (the default, not stable): every arrangement of the rows in sorted order
\* is a possible result.
SortValues(d) ==
    {Reorder(d, p) : p \in {q \in Permutations(Len(d)) :
        \A i \in 1..(Len(d) - 1) : InSortedOrder(d[q[i]], d[q[i + 1]])}}

\* ---------------------------------------------------------- topic suggester

\* DataFrame.head(n)
HeadRows(d, n) == SubSeq(d, 1, Min(n, Len(d)))

\* Insert row x into s, sorted descending, behind every row not smaller.
RECURSIVE InsertStable(_, _)
InsertStable(s, x) ==
    IF s = <<>> THEN <<x>>
    ELSE IF InSortedOrder(Head(s), x) THEN <<Head(s)>> \o InsertStable(Tail(s), x)
    ELSE <<x>> \o s

\* argsort(kind="mergesort") of the negated scores: descending, stable.
RECURSIVE MergeSortDescending(_)
MergeSortDescending(d) ==
    IF d = <<>> THEN <<>>
    ELSE InsertStable(MergeSortDescending(SubSeq(d, 1, Len(d) - 1)), d[Len(d)])

\* A selection that ignores n.
NLargestAll(d, n) == SortValues(d)

\* df.nlargest(n, "engagement_score"), keep = "first" (pandas SelectNSeries):
\*   n <= 0        no rows;
\*   n >= len(df)  the slow path, sort_values(ascending=False).head(n);
\*   otherwise     the rows not below the n-th largest score, stably sorted
\*                 descending, cut to n.
NLargest(d, n) ==
    IF n <= 0 THEN {<<>>}
    ELSE IF n >= Len(d) THEN {HeadRows(s, n) : s \in SortValues(d)}
    ELSE {HeadRows(MergeSortDescending(d), n)}

\* A dict update that always adds a key.
IncrementAppend(counts, tag) == Append(counts, [tag |-> tag, count |-> 1])

\* tag_counts[tag] = tag_counts.get(tag, 0) + 1; a dict keeps insertion order.
Increment(counts, tag) ==
    IF \E i \in 1..Len(counts) : counts[i].tag = tag
    THEN [i \in 1..Len(counts) |->
            IF counts[i].tag = tag
            THEN [tag |-> tag, count |-> counts[i].count + 1]
            ELSE counts[i]]
    ELSE Append(counts, [tag |-> tag, count |-> 1])

\* for tags in top_videos["tags"]: for tag in tags: ...
RECURSIVE CountTags(_, _)
CountTags(tags, counts) ==
    IF tags = <<>> THEN counts
    ELSE CountTags(Tail(tags), Increment(counts, Head(tags)))

TagColumn(d) == [i \in 1..Len(d) |-> d[i].tags]

\* Insert item x in front of the items of equal count.
RECURSIVE InsertByCountFirst(_, _)
InsertByCountFirst(s, x) ==
    IF s = <<>> THEN <<x>>
    ELSE IF Head(s).count > x.count
         THEN <<Head(s)>> \o InsertByCountFirst(Tail(s), x)
         ELSE <<x>> \o s

\* Insert item x into s, sorted by count descending, behind every item whose
\* count is not smaller.
RECURSIVE InsertByCount(_, _)
InsertByCount(s, x) ==
    IF s = <<>> THEN <<x>>
    ELSE IF Head(s).count >= x.count
         THEN <<Head(s)>> \o InsertByCount(Tail(s), x)
         ELSE <<x>> \o s

\* sorted(tag_counts.items(), key=lambda item: item[1], reverse=True):
\* stable, and reverse=True keeps the order of equal keys.
RECURSIVE SortedByCount(_)
SortedByCount(items) ==
    IF items = <<>> THEN <<>>
    ELSE InsertByCount(SortedByCount(SubSeq(items, 1, Len(items) - 1)),
                       items[Len(items)])

\* [tag for tag, count in sorted_tags]
TagsOf(items) == [i \in 1..Len(items) |-> items[i].tag]

\* ------------------------------------------------------------------- main

Init ==
    /\ pc = "load"
    /\ csv \in Tables
    /\ top_n \in TopNs
    /\ df = <<>>
    /\ ranked = <<>>
    /\ top_videos = <<>>
    /\ tag_counts = <<>>
    /\ suggestions = <<>>

\* df = load_video_data(input_path)
Load ==
    /\ pc = "load"
    /\ df' = load_video_data(csv)
    /\ pc' = "classify"
    /\ UNCHANGED <<csv, top_n, ranked, top_videos, tag_counts, suggestions>>

\* df["content_type"] = df["duration_seconds"].apply(classify_content_type)
Classify ==
    /\ pc = "classify"
    /\ df' = SetContentType(df)
    /\ pc' = "analyze"
    /\ UNCHANGED <<csv, top_n, ranked, top_videos, tag_counts, suggestions>>

\* analyze_engagement(df): copy, score every row, sort.  Assigning anything
\* but a Series of scores to the column raises, as does a failed division.
AnalyzeEngagement ==
    /\ pc = "analyze"
    /\ LET local == DfCopy(df)
           applied == Apply(local.rows)
       IN  IF applied.kind # "Series"
           THEN /\ pc' = "error"
                /\ UNCHANGED <<df, ranked>>
           ELSE LET scored == SetEngagementScore(local.rows, applied.values)
                IN  /\ \E r \in SortValues(scored) : ranked' = r
                    /\ df' = IF local.shares_data THEN scored ELSE df
                    /\ pc' = "suggest"
    /\ UNCHANGED <<csv, top_n, top_videos, tag_counts, suggestions>>

\* suggest_content_topics(df, top_n)
SuggestContentTopics ==
    /\ pc = "suggest"
    /\ \E tv \in NLargest(ranked, top_n) :
        /\ top_videos' = tv
        /\ tag_counts' = CountTags(Flatten(TagColumn(tv)), <<>>)
        /\ suggestions' = TagsOf(SortedByCount(CountTags(Flatten(TagColumn(tv)), <<>>)))
    /\ pc' = "report"
    /\ UNCHANGED <<csv, top_n, df, ranked>>

\* The two print blocks of main().
Report ==
    /\ pc = "report"
    /\ pc' = "done"
    /\ UNCHANGED <<csv, top_n, df, ranked, top_videos, tag_counts, suggestions>>

Next ==
    \/ Load
    \/ Classify
    \/ AnalyzeEngagement
    \/ SuggestContentTopics
    \/ Report

Spec == Init /\ [][Next]_vars

\* ----------------------------------------------------------------- claims

\* analyze_engagement has returned.
Analyzed == pc \in {"suggest", "report", "done"}

\* suggest_content_topics has returned.
Suggested == pc \in {"report", "done"}

\* The ranked rows are not in load order.
Reordered == \E i \in 1..Len(ranked) : ranked[i].index # i - 1

SameScore(a, b) ==
    a.engagement_score.num * b.engagement_score.den
        = b.engagement_score.num * a.engagement_score.den

\* C1: the sequence analyze_engagement returns is sorted by engagement_score
\* descending: score[i] >= score[i+1] for all adjacent positions.
C1_RankedDescending ==
    Analyzed =>
        \A i \in 1..(Len(ranked) - 1) :
            ranked[i].engagement_score.num * ranked[i + 1].engagement_score.den
                >= ranked[i + 1].engagement_score.num * ranked[i].engagement_score.den

\* Three rows, moved by the sort, with a strict descent.
C1_Witness ==
    /\ Analyzed
    /\ Len(ranked) >= 3
    /\ Reordered
    /\ ~SameScore(ranked[1], ranked[Len(ranked)])

\* C2 as stated: of two rows with equal engagement_score, the one loaded
\* earlier comes earlier in the ranked output.
C2_StableByLoadOrder ==
    Analyzed =>
        \A i, j \in 1..Len(ranked) :
            (i < j /\ SameScore(ranked[i], ranked[j]))
                => ranked[i].index < ranked[j].index

\* C2 as amended: rows with equal engagement_score lie next to each other in
\* the ranked output (no row with another score between them); which of them
\* comes first is not fixed by the load order.
C2_TiesContiguous ==
    Analyzed =>
        \A i, j, k \in 1..Len(ranked) :
            (i < k /\ k < j /\ SameScore(ranked[i], ranked[j]))
                => SameScore(ranked[i], ranked[k])

\* Two rows of equal score ranked against their load order, and a row of
\* another score in the output.
C2_Witness ==
    /\ Analyzed
    /\ \E i, j \in 1..Len(ranked) :
        /\ i < j
        /\ SameScore(ranked[i], ranked[j])
        /\ ranked[i].index > ranked[j].index
    /\ \E i, j \in 1..Len(ranked) : ~SameScore(ranked[i], ranked[j])

\* C3: a table without data rows runs through every stage without an error
\* and yields an empty ranked sequence and an empty suggestion list.
C3_EmptyInput ==
    csv = <<>> =>
        /\ pc # "error"
        /\ pc # "done" => ENABLED Next
        /\ df = <<>>
        /\ ranked = <<>>
        /\ top_videos = <<>>
        /\ suggestions = <<>>

\* The pipeline has finished on the empty table.
C3_Witness == csv = <<>> /\ pc = "done"

\* C4 as stated: the rows scanned are the first min(top_n, n) rows of the
\* ranked sequence, in ranked order.
C4_ScannedInRankedOrder ==
    Suggested =>
        top_videos = SubSeq(ranked, 1, IF top_n <= Len(ranked) THEN top_n ELSE Len(ranked))

\* C4 as amended: the rows scanned are exactly the first min(top_n, n) rows
\* of the ranked sequence, each once, in descending score order; they are in
\* ranked order when top_n < n (for top_n >= n rows of equal score may be
\* scanned in another order); the suggested tags are the tags of those rows,
\* and top_n = 0 gives no suggestion and no error.
C4_SelectsFirstTopN ==
    Suggested =>
        LET k == IF top_n <= Len(ranked) THEN top_n ELSE Len(ranked)
            first == {ranked[i] : i \in 1..k}
        IN  /\ Len(top_videos) = k
            /\ {top_videos[i] : i \in 1..Len(top_videos)} = first
            /\ \A i \in 1..(Len(top_videos) - 1) :
                top_videos[i].engagement_score.num * top_videos[i + 1].engagement_score.den
                    >= top_videos[i + 1].engagement_score.num * top_videos[i].engagement_score.den
            /\ top_n < Len(ranked) => top_videos = SubSeq(ranked, 1, k)
            /\ {suggestions[i] : i \in 1..Len(suggestions)}
                = UNION {{r.tags[t] : t \in 1..Len(r.tags)} : r \in first}
            /\ top_n = 0 => suggestions = <<>>

\* A cut through a tie: the last row taken and the first row left out have
\* the same score, and the row left out carries tags.
C4_Witness ==
    /\ Suggested
    /\ top_n > 0
    /\ top_n < Len(ranked)
    /\ SameScore(ranked[top_n], ranked[top_n + 1])
    /\ ranked[top_n + 1].tags # <<>>
    /\ Len(top_videos) = top_n

\* The tags scanned, in scan order.
Scan == Flatten([i \in 1..Len(top_videos) |-> top_videos[i].tags])

Occurrences(t) == Cardinality({i \in 1..Len(Scan) : Scan[i] = t})

FirstSeen(t) == CHOOSE i \in 1..Len(Scan) :
    Scan[i] = t /\ \A j \in 1..(i - 1) : Scan[j] # t

\* C5: the suggestions are ordered by descending occurrence count over the
\* rows scanned, and tags of equal count are in the order in which the scan
\* met them first.
C5_ByCountThenFirstSeen ==
    Suggested =>
        \A i, j \in 1..Len(suggestions) :
            i < j =>
                \/ Occurrences(suggestions[i]) > Occurrences(suggestions[j])
                \/ /\ Occurrences(suggestions[i]) = Occurrences(suggestions[j])
                   /\ FirstSeen(suggestions[i]) < FirstSeen(suggestions[j])

\* Three suggestions: a tie between two tags and a tag counted more often,
\* met later in the scan than a tag it overtakes.
C5_Witness ==
    /\ Suggested
    /\ Len(suggestions) >= 3
    /\ \E i, j \in 1..Len(suggestions) :
        i # j /\ Occurrences(suggestions[i]) = Occurrences(suggestions[j])
    /\ \E i, j \in 1..Len(suggestions) :
        /\ i < j
        /\ Occurrences(suggestions[i]) > Occurrences(suggestions[j])
        /\ FirstSeen(suggestions[i]) > FirstSeen(suggestions[j])

\* C6: every tag appears at most once in the suggestions.
C6_SuggestionsDistinct ==
    Suggested =>
        \A i, j \in 1..Len(suggestions) :
            suggestions[i] = suggestions[j] => i = j

\* A tag twice in one scanned row and again in another scanned row.
C6_Witness ==
    /\ Suggested
    /\ \E a, b \in 1..Len(top_videos) :
        /\ a # b
        /\ \E x, y \in 1..Len(top_videos[a].tags) :
            /\ x # y
            /\ top_videos[a].tags[x] = top_videos[a].tags[y]
            /\ \E z \in 1..Len(top_videos[b].tags) :
                top_videos[b].tags[z] = top_videos[a].tags[x]

\* s is the value of the formula of C7 for row r, and no failed division.
ScoreIsFormula(r, s) ==
    LET v == IF r.views > 1 THEN r.views ELSE 1
        d == IF r.duration_seconds > 1 THEN r.duration_seconds ELSE 1
        w == r.watch_time_hours
    IN  /\ s.den > 0
        /\ s.num * (10 * v * d * w.den)
            = s.den * ((4 * r.likes + 3 * r.comments + 2 * r.shares) * d * w.den
                       + 3600 * w.num * v)

\* C7: for every row the score is
\*   0.4*likes/max(views,1) + 0.3*comments/max(views,1)
\*   + 0.2*shares/max(views,1) + 0.1*(watch_time_hours*3600)/max(duration,1):
\* the scorer gives that value, without a failed division, for every row it
\* is about to be applied to, with views = 0 the like ratio is the like
\* count, and every score attached by analyze_engagement is that value.
C7_ScoreFormula ==
    /\ pc = "analyze" =>
        \A i \in 1..Len(df) :
            /\ ScoreIsFormula(df[i], compute_engagement_score(df[i]))
            /\ df[i].views = 0 =>
                like_ratio(df[i]) = [num |-> df[i].likes, den |-> 1]
    /\ Analyzed =>
        \A i \in 1..Len(ranked) :
            ScoreIsFormula(ranked[i], ranked[i].engagement_score)

\* A row without views and a row without duration have been scored.
C7_Witness ==
    /\ Analyzed
    /\ \E i \in 1..Len(ranked) : ranked[i].views = 0 /\ ranked[i].likes > 0
    /\ \E i \in 1..Len(ranked) :
        ranked[i].duration_seconds = 0 /\ ranked[i].engagement_score.num > 0

\* C8: for the table of records A and B, in either load order, with
\* top_n = 2: A scores more than B and ranks first, A is a video and B a
\* short, and the suggestions are exactly tech, review and vlog.
C8_EndToEnd ==
    (/\ csv \in {<<RecordA, RecordB>>, <<RecordB, RecordA>>}
     /\ top_n = 2
     /\ pc = "done") =>
        /\ Len(ranked) = 2
        /\ ranked[1].video_id = "A"
        /\ ranked[2].video_id = "B"
        /\ ranked[1].engagement_score = [num |-> 1597, den |-> 1000]
        /\ ranked[2].engagement_score = [num |-> 77, den |-> 125]
        /\ ranked[1].content_type = "video"
        /\ ranked[2].content_type = "short"
        /\ Len(suggestions) = 3
        /\ {suggestions[i] : i \in 1..Len(suggestions)}
            = {<<"tech">>, <<"review">>, <<"vlog">>}

\* The run on B, A (B loaded first) has finished.
C8_Witness == csv = <<RecordB, RecordA>> /\ top_n = 2 /\ pc = "done"

\* C9: analyze_engagement leaves the frame passed to it as it was: the same
\* rows in the same order, raw views and duration_seconds (not the floored
\* ones), and no engagement_score column.
C9_InputUnchanged ==
    pc \in {"suggest", "report", "done", "error"} =>
        /\ df = SetContentType(load_video_data(csv))
        /\ Len(df) = Len(csv)
        /\ \A i \in 1..Len(df) :
            /\ df[i].index = i - 1
            /\ "engagement_score" \notin DOMAIN df[i]
            /\ df[i].video_id = csv[i].video_id
            /\ df[i].views = csv[i].views
            /\ df[i].duration_seconds = csv[i].duration_seconds

\* analyze_engagement has reordered a frame holding a row without views and
\* a row without duration.
C9_Witness ==
    /\ pc = "suggest"
    /\ Reordered
    /\ \E i \in 1..Len(df) : df[i].views = 0
    /\ \E i \in 1..Len(df) : df[i].duration_seconds = 0

\* C10: the ranked output is a permutation of the input rows: each input
\* row is there exactly once, with all its columns as they were and with the
\* engagement_score computed from that row.
C10_RankedIsPermutation ==
    Analyzed =>
        /\ Len(ranked) = Len(df)
        /\ \A i, j \in 1..Len(ranked) : ranked[i].index = ranked[j].index => i = j
        /\ \A i \in 1..Len(df) :
            \E j \in 1..Len(ranked) :
                /\ ranked[j].index = df[i].index
                /\ DOMAIN ranked[j] = DOMAIN df[i] \cup {"engagement_score"}
                /\ \A f \in DOMAIN df[i] : ranked[j][f] = df[i][f]
                /\ ranked[j].engagement_score = compute_engagement_score(df[i])

\* Three rows of three different scores, moved by the sort.
C10_Witness ==
    /\ Analyzed
    /\ Len(ranked) = 3
    /\ Reordered
    /\ ~SameScore(ranked[1], ranked[2])
    /\ ~SameScore(ranked[2], ranked[3])
    /\ ranked[1].content_type # ranked[3].content_type

====
